---- MODULE Spec2Model ----
(***************************************************************************)
(* A model of the sudoku puzzle generator of src/sudoku/generateSudoku.py: *)
(* the constraint checker is_valid, the backtracking searches              *)
(* solve_sudoku, fill_remaining and count_solutions, the carving loop      *)
(* remove_cells and the packaging loop generate_sudoku_set.                *)
(*                                                                         *)
(* Boards are 9x9 grids indexed from 0, as in the source.  Python lists    *)
(* are objects reached through references, so the boards live in a heap    *)
(* and the program's variables hold addresses; copy.deepcopy allocates.    *)
(* Each recursive search is modelled with its explicit call stack: a frame *)
(* holds the cell an invocation works on and the position of its           *)
(* `for num in range(1, 10)` loop.  One step of a search runs the          *)
(* invocation on top of the stack up to its next call or return.           *)
(***************************************************************************)
EXTENDS Integers, Sequences, FiniteSets, TLC

(***************************************************************************)
(* Bounds of the model.                                                    *)
(***************************************************************************)
\* the random source is one of the seeds 0 .. NumSeeds-1
NumSeeds == 2
\* generate_sudoku_set is called with count in -1 .. MaxCount
MaxCount == 2
\* shuffles of the free generator runs rotate the list by 0 .. MaxShift
MaxShift == 0

(***************************************************************************)
(* Program constants.                                                      *)
(***************************************************************************)
\* the side of the grid: range(9)
N == 9
\* the side of a box: 3 * (row // 3), range(3)
BoxSide == 3

Idx == 0 .. (N - 1)
Nums == 1 .. N
Cells == Idx \X Idx

Min(S) == CHOOSE x \in S : \A y \in S : x <= y

\* board = [[0]*9 for _ in range(9)]
EmptyBoard == [r \in Idx |-> [c \in Idx |-> 0]]

\* the heap cell of no object
NoBoard == <<>>

(***************************************************************************)
(* is_valid(board, row, col, num)                                          *)
(***************************************************************************)
is_valid_corner(board, row, col, num) ==
    /\ \A x \in 0 .. (N - 1) : ~(board[row][x] = num \/ board[x][col] = num)
    /\ LET start_row == row \div BoxSide
           start_col == col \div BoxSide
       IN \A i0 \in 0 .. (BoxSide - 1) : \A j0 \in 0 .. (BoxSide - 1) :
              board[start_row + i0][start_col + j0] # num
is_valid_rowcol(board, row, col, num) ==
    \A x \in 0 .. (N - 1) : ~(board[row][x] = num \/ board[x][col] = num)
is_valid(board, row, col, num) ==
    /\ \A x \in 0 .. (N - 1) : ~(board[row][x] = num \/ board[x][col] = num)
    /\ LET start_row == BoxSide * (row \div BoxSide)
           start_col == BoxSide * (col \div BoxSide)
       IN \A i0 \in 0 .. (BoxSide - 1) : \A j0 \in 0 .. (BoxSide - 1) :
              board[start_row + i0][start_col + j0] # num

\* `for num in range(1, 10): if is_valid(board, row, col, num):` resumed at
\* `from`: the first num the loop body runs for, N + 1 when the loop ends
NextValid(board, row, col, from) ==
    Min({num \in from .. N : is_valid(board, row, col, num)} \cup {N + 1})

\* `for row in range(9): for col in range(9): if board[row][col] == 0:`
\* the first empty cell in row-major order, <<N, N>> when the loops end
FirstEmpty(board) ==
    LET rows == {r \in Idx : \E c \in Idx : board[r][c] = 0}
    IN IF rows = {} THEN <<N, N>>
       ELSE LET r == Min(rows)
            IN <<r, Min({c \in Idx : board[r][c] = 0})>>

(***************************************************************************)
(* The state.                                                              *)
(***************************************************************************)
VARIABLES
    pc,               \* the statement the program is at
    count,            \* generate_sudoku_set: the argument count
    difficulty,       \* generate_sudoku_set: the argument difficulty
    i,                \* generate_sudoku_set: the loop index
    result,           \* generate_sudoku_set: the dict, in insertion order
    seed,             \* the state of the random source
    draws,            \* remove_cells: cells drawn so far by random.randint
    heap,             \* the list objects: address -> board
    complete,         \* generate_sudoku_puzzle: address of the complete grid
    puzzle,           \* generate_sudoku_puzzle: address of the carved grid
    b,                \* count_solutions: address of the private copy
    clues,            \* remove_cells: the clue target
    cells_to_remove,  \* remove_cells: removals still to make
    row,              \* remove_cells: the cell drawn
    col,
    backup,           \* remove_cells: the value the trial removal took out
    stack,            \* the frames of the search that is running
    sol_count,        \* count_solutions: the nonlocal count
    ok,               \* the boolean a finished search returned
    entry,            \* history: the board a search was called with
    certified,        \* history: the last board count_solutions returned 1 for
    rejected          \* history: the cells remove_cells has put back

setVars == <<count, difficulty, i, result>>
rndVars == <<seed, draws>>
objVars == <<heap, complete, puzzle, b>>
carveVars == <<clues, cells_to_remove, row, col, backup, certified, rejected>>
searchVars == <<stack, sol_count, ok, entry>>
vars == <<pc, setVars, rndVars, objVars, carveVars, searchVars>>

\* the addresses of the objects a call of generate_sudoku_puzzle allocates
CompleteAddr == 1
PuzzleAddr == 2
CopyAddr == 3
Addr == {CompleteAddr, PuzzleAddr, CopyAddr}

Init ==
    /\ pc = "idle"
    /\ count = 0
    /\ difficulty = ""
    /\ i = 0
    /\ result = <<>>
    /\ seed = 0
    /\ draws = 0
    /\ heap = [a \in Addr |-> NoBoard]
    /\ complete = 0
    /\ puzzle = 0
    /\ b = 0
    /\ clues = 0
    /\ cells_to_remove = 0
    /\ row = 0
    /\ col = 0
    /\ backup = 0
    /\ stack = <<>>
    /\ sol_count = 0
    /\ ok = FALSE
    /\ entry = NoBoard
    /\ certified = NoBoard
    /\ rejected = {}

(***************************************************************************)
(* fill_diagonal_boxes(board): box k gets the list nums, shuffled, popped  *)
(* from its end.  shuffled[k + 1] is the outcome of the k-th shuffle.      *)
(***************************************************************************)
fill_diagonal_boxes(board, shuffled) ==
    [r \in Idx |-> [c \in Idx |->
        IF r \div BoxSide = c \div BoxSide
        THEN LET nums == shuffled[(r \div BoxSide) + 1]
                 popped == BoxSide * (r % BoxSide) + (c % BoxSide)
             IN nums[N - popped]
        ELSE board[r][c]]]

\* outcomes of random.shuffle(list(range(1, 10))): the list x -> m*x + r
\* (mod 9), a permutation when m is prime to 9
Shuffle(m, r) == [x \in 1 .. N |-> ((m * (x - 1) + r) % N) + 1]
Mults == {1, 2, 4, 5, 7, 8}
ShuffleOutcomes == {Shuffle(m, r) : m \in Mults, r \in 0 .. MaxShift}

(***************************************************************************)
(* fill_remaining(board, i, j)                                             *)
(***************************************************************************)
\* the statements before the loop: the cell the invocation fills, or done
\* when it returns True at once
FillCell_noskip(i0, j0) ==
    LET wrap == j0 >= N /\ i0 < N - 1
        i1 == IF wrap THEN i0 + 1 ELSE i0
        j1 == IF wrap THEN 0 ELSE j0
    IN IF i1 >= N /\ j1 >= N THEN [done |-> TRUE, i |-> i1, j |-> j1]
       ELSE IF i1 < 3
            THEN [done |-> FALSE, i |-> i1, j |-> IF j1 < 3 THEN 3 ELSE j1]
       ELSE IF i1 < 6
            THEN [done |-> FALSE, i |-> i1, j |-> j1]
       ELSE IF j1 = 6
            THEN [done |-> i1 + 1 >= N, i |-> i1 + 1, j |-> 0]
       ELSE [done |-> FALSE, i |-> i1, j |-> j1]
FillCell(i0, j0) ==
    LET wrap == j0 >= N /\ i0 < N - 1
        i1 == IF wrap THEN i0 + 1 ELSE i0
        j1 == IF wrap THEN 0 ELSE j0
    IN IF i1 >= N /\ j1 >= N THEN [done |-> TRUE, i |-> i1, j |-> j1]
       ELSE IF i1 < 3
            THEN [done |-> FALSE, i |-> i1, j |-> IF j1 < 3 THEN 3 ELSE j1]
       ELSE IF i1 < 6
            THEN [done |-> FALSE, i |-> i1,
                  j |-> IF j1 = (i1 \div 3) * 3 THEN j1 + 3 ELSE j1]
       ELSE IF j1 = 6
            THEN [done |-> i1 + 1 >= N, i |-> i1 + 1, j |-> 0]
       ELSE [done |-> FALSE, i |-> i1, j |-> j1]

\* generate_complete_sudoku up to the call fill_remaining(board, 0, 3)
StartFill(shuffled) ==
    LET cell == FillCell(0, 3)
    IN /\ heap' = [heap EXCEPT ![CompleteAddr] =
                       fill_diagonal_boxes(EmptyBoard, shuffled)]
       /\ complete' = CompleteAddr
       /\ stack' = <<[i |-> cell.i, j |-> cell.j, num |-> 1]>>
       /\ ok' = FALSE
       /\ pc' = "fill"
       /\ UNCHANGED <<puzzle, b, sol_count, entry>>

\* the invocation on top of the stack runs its loop up to the next call of
\* fill_remaining, or returns
FillStep ==
    /\ pc = "fill"
    /\ stack # <<>>
    /\ LET f == stack[Len(stack)]
           board == heap[complete]
           num == NextValid(board, f.i, f.j, f.num)
       IN IF num > N
          THEN \* return False: the caller resets its cell and goes on
               IF Len(stack) = 1
               THEN /\ stack' = <<>>
                    /\ ok' = FALSE
                    /\ heap' = heap
               ELSE LET c == stack[Len(stack) - 1]
                    IN /\ heap' = [heap EXCEPT ![complete][c.i][c.j] = 0]
                       /\ stack' = [SubSeq(stack, 1, Len(stack) - 1)
                                        EXCEPT ![Len(stack) - 1].num = c.num + 1]
                       /\ ok' = ok
          ELSE LET cell == FillCell(f.i, f.j + 1)
               IN /\ heap' = [heap EXCEPT ![complete][f.i][f.j] = num]
                  /\ IF cell.done
                     THEN \* return True, in every invocation on the stack
                          /\ stack' = <<>>
                          /\ ok' = TRUE
                     ELSE /\ stack' = Append(
                                 [stack EXCEPT ![Len(stack)].num = num],
                                 [i |-> cell.i, j |-> cell.j, num |-> 1])
                          /\ ok' = ok
    /\ UNCHANGED <<pc, setVars, rndVars, complete, puzzle, b, carveVars,
                   sol_count, entry>>

(***************************************************************************)
(* The random source.  A seed fixes the outcome of every call of           *)
(* random.shuffle and random.randint made for one puzzle; the next puzzle  *)
(* is generated from the next seed.                                        *)
(***************************************************************************)
Seeds == 0 .. (NumSeeds - 1)
SeedMults == << <<1, 1, 1>>, <<1, 2, 4>>, <<4, 5, 7>> >>
SeedShifts == << <<0, 0, 0>>, <<0, 1, 2>>, <<2, 3, 4>> >>
SeedClueDraw == <<0, 5, 3>>
SeedStep == <<80, 4, 76>>
SeedStart == <<54, 68, 68>>
At(table, s) == table[(s % Len(table)) + 1]

\* the three outcomes of random.shuffle(nums) in fill_diagonal_boxes
SeedShuffles(s) ==
    [k \in 1 .. 3 |-> Shuffle(At(SeedMults, s)[k], At(SeedShifts, s)[k])]

\* random.randint(lo, hi) for the clue target
RandClues(lo, hi, s) == lo + (At(SeedClueDraw, s) % (hi - lo + 1))

\* the k-th pair random.randint(0, 8), random.randint(0, 8) of remove_cells
RandCell(s, k) ==
    LET idx == (At(SeedStep, s) * k + At(SeedStart, s)) % (N * N)
    IN <<idx \div N, idx % N>>

(***************************************************************************)
(* copy.deepcopy(board): a new object at the address `fresh`               *)
(***************************************************************************)
deepcopy_alias(h, src, fresh) == [heap |-> h, ref |-> src]
deepcopy(h, src, fresh) ==
    [heap |-> [h EXCEPT ![fresh] = h[src]], ref |-> fresh]

(***************************************************************************)
(* solve_sudoku(board)                                                     *)
(***************************************************************************)
\* `board[row][col] = 0` after a recursive call that returned False
Undo_kept(board, r, c) == board
Undo_swapped(board, r, c) == [board EXCEPT ![c][r] = 0]
Undo(board, r, c) == [board EXCEPT ![r][c] = 0]

\* the call solve_sudoku(board), up to the first recursive call or to its
\* return
StartSolve(h, board) ==
    LET cell == FirstEmpty(h[board])
    IN /\ heap' = h
       /\ entry' = h[board]
       /\ IF cell[1] = N
          THEN /\ ok' = TRUE
               /\ stack' = <<>>
          ELSE /\ ok' = FALSE
               /\ stack' = <<[row |-> cell[1], col |-> cell[2], num |-> 1]>>

\* the invocation on top of the stack runs its loop up to the next call that
\* finds an empty cell, or returns
SolveStep ==
    /\ pc = "solve"
    /\ stack # <<>>
    /\ LET f == stack[Len(stack)]
           num == NextValid(heap[puzzle], f.row, f.col, f.num)
       IN IF num > N
          THEN \* return False: the caller resets its cell and goes on
               IF Len(stack) = 1
               THEN /\ stack' = <<>>
                    /\ ok' = FALSE
                    /\ heap' = heap
               ELSE LET c == stack[Len(stack) - 1]
                    IN /\ heap' = [heap EXCEPT ![puzzle] =
                                      Undo(heap[puzzle], c.row, c.col)]
                       /\ stack' = [SubSeq(stack, 1, Len(stack) - 1)
                                        EXCEPT ![Len(stack) - 1].num = c.num + 1]
                       /\ ok' = ok
          ELSE LET placed == [heap[puzzle] EXCEPT ![f.row][f.col] = num]
                   cell == FirstEmpty(placed)
               IN /\ heap' = [heap EXCEPT ![puzzle] = placed]
                  /\ IF cell[1] = N
                     THEN \* return True, in every invocation on the stack
                          /\ stack' = <<>>
                          /\ ok' = TRUE
                     ELSE /\ stack' = Append(
                                 [stack EXCEPT ![Len(stack)].num = num],
                                 [row |-> cell[1], col |-> cell[2], num |-> 1])
                          /\ ok' = ok
    /\ UNCHANGED <<pc, setVars, rndVars, complete, puzzle, b, carveVars,
                   sol_count, entry>>

(***************************************************************************)
(* count_solutions(board)                                                  *)
(***************************************************************************)
\* the argument of the call solve_count(copy.deepcopy(board))
CountCopy_alias(h, board) == [heap |-> h, ref |-> board]
CountCopy(h, board) == deepcopy(h, board, CopyAddr)

\* `count += 1`
Increment_capped(c) == IF c >= 2 THEN c ELSE c + 1
Increment(c) == c + 1

\* count = 0 and the call solve_count(copy.deepcopy(board)), up to the first
\* call solve_count makes or to its return
StartCount(h, board) ==
    LET cp == CountCopy(h, board)
        cell == FirstEmpty(cp.heap[cp.ref])
    IN /\ heap' = cp.heap
       /\ b' = cp.ref
       /\ entry' = h[board]
       /\ IF cell[1] = N
          THEN /\ sol_count' = Increment(0)
               /\ stack' = <<>>
          ELSE /\ sol_count' = 0
               /\ stack' = <<[row |-> cell[1], col |-> cell[2], num |-> 1]>>

\* the invocation of solve_count on top of the stack runs its loop up to the
\* next call that finds an empty cell, or returns
CountStep ==
    /\ pc = "count"
    /\ stack # <<>>
    /\ LET f == stack[Len(stack)]
           num == NextValid(heap[b], f.row, f.col, f.num)
       IN IF num > N
          THEN \* return: the caller resets its cell and goes on
               /\ sol_count' = sol_count
               /\ IF Len(stack) = 1
                  THEN /\ stack' = <<>>
                       /\ heap' = heap
                  ELSE LET c == stack[Len(stack) - 1]
                       IN /\ heap' = [heap EXCEPT ![b][c.row][c.col] = 0]
                          /\ stack' = [SubSeq(stack, 1, Len(stack) - 1)
                                          EXCEPT ![Len(stack) - 1].num = c.num + 1]
          ELSE LET placed == [heap[b] EXCEPT ![f.row][f.col] = num]
                   cell == FirstEmpty(placed)
               IN IF cell[1] = N
                  THEN \* the call counts a solution and returns
                       /\ sol_count' = Increment(sol_count)
                       /\ heap' = [heap EXCEPT ![b] =
                                      [placed EXCEPT ![f.row][f.col] = 0]]
                       /\ stack' = [stack EXCEPT ![Len(stack)].num = num + 1]
                  ELSE /\ sol_count' = sol_count
                       /\ heap' = [heap EXCEPT ![b] = placed]
                       /\ stack' = Append(
                              [stack EXCEPT ![Len(stack)].num = num],
                              [row |-> cell[1], col |-> cell[2], num |-> 1])
    /\ UNCHANGED <<pc, setVars, rndVars, complete, puzzle, b, carveVars, ok,
                   entry>>

(***************************************************************************)
(* remove_cells(board, difficulty)                                         *)
(***************************************************************************)
ClueTarget_pasted(d, s) ==
    IF d = "easy" THEN RandClues(45, 50, s) ELSE RandClues(25, 30, s)
ClueTarget(d, s) ==
    IF d = "easy" THEN RandClues(45, 50, s)
    ELSE IF d = "medium" THEN RandClues(35, 40, s)
    ELSE RandClues(25, 30, s)

\* `if count_solutions(board) != 1:` the removal is put back
PutBack_none(c) == c = 0
PutBack(c) == c # 1

\* generate_complete_sudoku returns (the result of fill_remaining is not
\* looked at); generate_sudoku_puzzle copies the grid and calls remove_cells,
\* which draws the clue target
RemoveCells ==
    /\ pc = "fill"
    /\ stack = <<>>
    /\ LET cp == deepcopy(heap, complete, PuzzleAddr)
       IN /\ heap' = cp.heap
          /\ puzzle' = cp.ref
    /\ clues' = ClueTarget(difficulty, seed)
    /\ cells_to_remove' = N * N - clues'
    /\ draws' = 0
    /\ certified' = NoBoard
    /\ rejected' = {}
    /\ pc' = "carve"
    /\ UNCHANGED <<setVars, seed, complete, b, row, col, backup, searchVars>>

\* one pass of `while cells_to_remove > 0:` up to the call of count_solutions
RemoveTry ==
    /\ pc = "carve"
    /\ cells_to_remove > 0
    /\ LET cell == RandCell(seed, draws)
       IN /\ row' = cell[1]
          /\ col' = cell[2]
          /\ draws' = (draws + 1) % (N * N)
          /\ IF heap[puzzle][cell[1]][cell[2]] # 0
             THEN /\ backup' = heap[puzzle][cell[1]][cell[2]]
                  /\ StartCount([heap EXCEPT ![puzzle][cell[1]][cell[2]] = 0],
                                puzzle)
                  /\ pc' = "count"
             ELSE /\ UNCHANGED <<backup, heap, b, stack, sol_count, entry, pc>>
    /\ UNCHANGED <<setVars, seed, complete, puzzle, clues, cells_to_remove,
                   certified, rejected, ok>>

\* count_solutions returns count: the removal is put back or kept.  The
\* history records what count_solutions returned: certified is the board it
\* returned 1 for, rejected gains the cell whose removal it returned another
\* count for.
RemoveDecide ==
    /\ pc = "count"
    /\ stack = <<>>
    /\ IF PutBack(sol_count)
       THEN /\ heap' = [heap EXCEPT ![puzzle][row][col] = backup]
            /\ cells_to_remove' = cells_to_remove
       ELSE /\ heap' = heap
            /\ cells_to_remove' = cells_to_remove - 1
    /\ certified' = IF sol_count = 1 THEN heap[puzzle] ELSE certified
    /\ rejected' = IF sol_count = 1 THEN rejected
                   ELSE rejected \cup {<<row, col>>}
    /\ pc' = "carve"
    /\ UNCHANGED <<setVars, rndVars, complete, puzzle, b, clues, row, col,
                   backup, searchVars>>

(***************************************************************************)
(* generate_sudoku_puzzle and generate_sudoku_set                          *)
(***************************************************************************)
board_to_question(board) ==
    [r \in Idx |-> [c \in Idx |-> IF board[r][c] # 0 THEN board[r][c] ELSE 0]]

\* key = f"sdku-v1-q{i}"
Key_fixed(i0) == "sdku-v1-q"
Key(i0) == "sdku-v1-q" \o ToString(i0)

\* result[key] = value on a dict, which keeps the insertion order
DictSet(d, key, value) ==
    IF \E k \in 1 .. Len(d) : d[k].key = key
    THEN [k \in 1 .. Len(d) |->
             IF d[k].key = key THEN [key |-> key, value |-> value] ELSE d[k]]
    ELSE Append(d, [key |-> key, value |-> value])

\* the difficulties main accepts
Accepted == {"easy", "medium", "hard"}

\* the arguments generate_sudoku_set is called with: any count with a
\* difficulty main accepts, and a count of 1 with a difficulty it does not
Calls == ((-1 .. MaxCount) \X Accepted) \cup {<<1, "extreme">>}

\* a call generate_sudoku_set(count, difficulty): result = {}
GenerateSudokuSet ==
    /\ pc = "idle"
    /\ \E call \in Calls, s \in Seeds :
          /\ count' = call[1]
          /\ difficulty' = call[2]
          /\ seed' = s
    /\ i' = 1
    /\ result' = <<>>
    /\ pc' = "set_loop"
    /\ UNCHANGED <<draws, objVars, carveVars, searchVars>>

\* `for i in range(1, count+1):` the next puzzle, up to the call
\* fill_remaining(board, 0, 3) of generate_complete_sudoku
SetLoop ==
    /\ pc = "set_loop"
    /\ i <= count
    /\ StartFill(SeedShuffles(seed))
    /\ UNCHANGED <<setVars, rndVars, carveVars>>

\* remove_cells returns board; generate_sudoku_puzzle returns the pair
\* (question, complete), which is stored under the key of the index
SetInsert ==
    /\ pc = "carve"
    /\ cells_to_remove <= 0
    /\ LET question == board_to_question(heap[puzzle])
           answer == heap[complete]
       IN result' = DictSet(result, Key(i),
                            [q |-> question, a |-> answer, d |-> difficulty])
    /\ i' = i + 1
    /\ seed' = (seed + 1) % NumSeeds
    /\ pc' = "set_loop"
    /\ UNCHANGED <<count, difficulty, draws, objVars, carveVars, searchVars>>

\* `return result`
SetReturn ==
    /\ pc = "set_loop"
    /\ i > count
    /\ pc' = "returned"
    /\ UNCHANGED <<setVars, rndVars, objVars, carveVars, searchVars>>

(***************************************************************************)
(* main(): the script run with the arguments argv = sys.argv[1:]           *)
(***************************************************************************)
\* the decimal numeral of a natural number, and of an integer
Digits == <<"0", "1", "2", "3", "4", "5", "6", "7", "8", "9">>
RECURSIVE Decimal(_)
Decimal(n) ==
    IF n < 10 THEN Digits[n + 1]
    ELSE Decimal(n \div 10) \o Digits[(n % 10) + 1]
Numeral(n) == IF n < 0 THEN "-" \o Decimal(0 - n) ELSE Decimal(n)

\* int(word): the integer the word is the numeral of, or a ValueError
int(word) ==
    LET vals == {n \in -1 .. MaxCount : Numeral(n) = word}
    IN IF vals = {} THEN [raised |-> TRUE, val |-> 0]
       ELSE [raised |-> FALSE, val |-> CHOOSE n \in vals : TRUE]

\* word.lower()
lower(word) ==
    IF word = "HARD" THEN "hard"
    ELSE IF word = "Easy" THEN "easy"
    ELSE word

\* the argument lists the script is run with
Argvs ==
    {<<Numeral(n), word>> : n \in -1 .. MaxCount,
                            word \in Accepted \cup {"HARD", "Easy", "extreme"}}
        \cup {<<>>, <<"1">>, <<"x", "easy">>, <<"1", "easy", "hard">>}

\* main up to sys.exit(1) or to the call generate_sudoku_set(count,
\* difficulty)
Main ==
    /\ pc = "idle"
    /\ \E argv \in Argvs, s \in Seeds :
          IF Len(argv) + 1 # 3
          THEN /\ pc' = "exit"
               /\ UNCHANGED <<setVars, seed>>
          ELSE LET parsed == int(argv[1])
                   word == lower(argv[2])
               IN IF parsed.raised \/ word \notin Accepted
                  THEN /\ pc' = "exit"
                       /\ UNCHANGED <<setVars, seed>>
                  ELSE /\ count' = parsed.val
                       /\ difficulty' = word
                       /\ seed' = s
                       /\ i' = 1
                       /\ result' = <<>>
                       /\ pc' = "set_loop"
    /\ UNCHANGED <<draws, objVars, carveVars, searchVars>>

Next ==
    \/ Main
    \/ GenerateSudokuSet
    \/ SetLoop
    \/ FillStep
    \/ RemoveCells
    \/ RemoveTry
    \/ CountStep
    \/ RemoveDecide
    \/ SetInsert
    \/ SetReturn

Spec == Init /\ [][Next]_vars

(***************************************************************************)
(* generate_complete_sudoku called alone, with any outcome of the shuffles *)
(***************************************************************************)
GenerateComplete ==
    /\ pc = "idle"
    /\ \E p0 \in ShuffleOutcomes, p1 \in ShuffleOutcomes, p2 \in ShuffleOutcomes :
           StartFill(<<p0, p1, p2>>)
    /\ UNCHANGED <<setVars, rndVars, carveVars>>

\* `return board` of generate_complete_sudoku
GenerateCompleteReturn ==
    /\ pc = "fill"
    /\ stack = <<>>
    /\ pc' = "generated"
    /\ UNCHANGED <<setVars, rndVars, objVars, carveVars, searchVars>>

GenNext == GenerateComplete \/ FillStep \/ GenerateCompleteReturn
GenSpec == Init /\ [][GenNext]_vars
\* a call that has started runs on
FairGenSpec == GenSpec /\ WF_vars(GenNext)

(***************************************************************************)
(* count_solutions and solve_sudoku called alone, the way the unit tests   *)
(* call them: on a copy of a generated grid with cells zeroed.  The cells  *)
(* zeroed are any of those that hold a value of HoleVals in a row of       *)
(* HoleRows, or the three the test zeroes; one zeroed cell may get back    *)
(* another value that no clue contradicts.                                 *)
(***************************************************************************)
HoleRows == {2, 3, 6}
HoleVals == {1, 2, 3}
TestHoles == {<<k, k>> : k \in 0 .. 2}

HoleSets(board) ==
    SUBSET {cell \in Cells : /\ cell[1] \in HoleRows
                             /\ board[cell[1]][cell[2]] \in HoleVals}
        \cup {TestHoles}

Zeroed(board, holes) ==
    [r \in Idx |-> [c \in Idx |-> IF <<r, c>> \in holes THEN 0 ELSE board[r][c]]]

\* board = generate_complete_sudoku()
TestGenerate ==
    /\ pc = "idle"
    /\ \E s \in Seeds :
          /\ seed' = s
          /\ StartFill(SeedShuffles(s))
    /\ UNCHANGED <<setVars, draws, carveVars>>

\* puzzle = copy.deepcopy(board), the cells are set, and the call
\* count_solutions(puzzle) up to the first call solve_count makes
TestCount ==
    /\ pc = "fill"
    /\ stack = <<>>
    /\ \E holes \in HoleSets(heap[complete]) :
       \E cell \in holes \cup {<<N, N>>}, num \in HoleVals :
          LET cp == deepcopy(heap, complete, PuzzleAddr)
              zeroed == Zeroed(cp.heap[cp.ref], holes)
              set == IF cell = <<N, N>> THEN zeroed
                     ELSE [zeroed EXCEPT ![cell[1]][cell[2]] = num]
          IN /\ IF cell = <<N, N>> THEN num = Min(HoleVals)
                ELSE /\ num # heap[complete][cell[1]][cell[2]]
                     /\ is_valid(zeroed, cell[1], cell[2], num)
             /\ puzzle' = cp.ref
             /\ StartCount([cp.heap EXCEPT ![cp.ref] = set], cp.ref)
    /\ pc' = "count"
    /\ UNCHANGED <<setVars, rndVars, complete, carveVars, ok>>

\* count_solutions returns, and the call solve_sudoku(puzzle) up to its
\* first recursive call
TestSolve ==
    /\ pc = "count"
    /\ stack = <<>>
    /\ StartSolve(heap, puzzle)
    /\ pc' = "solve"
    /\ UNCHANGED <<setVars, rndVars, complete, puzzle, b, carveVars, sol_count>>

\* solve_sudoku returns
TestSolved ==
    /\ pc = "solve"
    /\ stack = <<>>
    /\ pc' = "solved"
    /\ UNCHANGED <<setVars, rndVars, objVars, carveVars, searchVars>>

UnitNext ==
    \/ TestGenerate
    \/ FillStep
    \/ TestCount
    \/ CountStep
    \/ TestSolve
    \/ SolveStep
    \/ TestSolved

UnitSpec == Init /\ [][UnitNext]_vars

(***************************************************************************)
(* is_valid called alone, the way the unit test calls it: on a generated   *)
(* grid, on the empty board, and on a generated grid with cells zeroed.    *)
(* The cells zeroed are the three the tests zero, or all those that hold a *)
(* value of HoleVals outside one row, one column or one box.               *)
(***************************************************************************)
RowCells(r) == {cell \in Cells : cell[1] = r}
ColCells(c) == {cell \in Cells : cell[2] = c}
BoxCells(r, c) ==
    {cell \in Cells : /\ cell[1] \div 3 = r \div 3
                      /\ cell[2] \div 3 = c \div 3}

Kept ==
    {{}} \cup {RowCells(r) : r \in Idx} \cup {ColCells(c) : c \in Idx}
         \cup {BoxCells(3 * br, 3 * bc) : br \in 0 .. 2, bc \in 0 .. 2}

ValidHoleSets(board) ==
    {{cell \in Cells \ kept : board[cell[1]][cell[2]] \in HoleVals} :
         kept \in Kept}
        \cup {{}, TestHoles, Cells}

\* the call is_valid(board, row, col, num): its frame holds the arguments
TestIsValid ==
    /\ pc = "fill"
    /\ stack = <<>>
    /\ \E holes \in ValidHoleSets(heap[complete]) :
          LET cp == deepcopy(heap, complete, PuzzleAddr)
          IN /\ puzzle' = cp.ref
             /\ heap' = [cp.heap EXCEPT ![cp.ref] = Zeroed(cp.heap[cp.ref], holes)]
    /\ entry' = heap'[puzzle']
    /\ \E r \in Idx, c \in Idx, n \in Nums :
          stack' = <<[row |-> r, col |-> c, num |-> n]>>
    /\ pc' = "is_valid"
    /\ UNCHANGED <<setVars, rndVars, complete, b, carveVars, sol_count, ok>>

\* is_valid runs to its return statement: ok is the value returned
IsValidReturn ==
    /\ pc = "is_valid"
    /\ LET f == stack[Len(stack)]
       IN ok' = is_valid(heap[puzzle], f.row, f.col, f.num)
    /\ pc' = "is_valid_return"
    /\ UNCHANGED <<setVars, rndVars, objVars, carveVars, stack, sol_count, entry>>

\* the caller has the value: self.assertFalse(...), self.assertTrue(...)
TestIsValidDone ==
    /\ pc = "is_valid_return"
    /\ stack' = <<>>
    /\ pc' = "asserted"
    /\ UNCHANGED <<setVars, rndVars, objVars, carveVars, sol_count, ok, entry>>

ValidNext ==
    \/ TestGenerate
    \/ FillStep
    \/ TestIsValid
    \/ IsValidReturn
    \/ TestIsValidDone

ValidSpec == Init /\ [][ValidNext]_vars

(***************************************************************************)
(* fill_remaining and solve_sudoku run on the same board: after            *)
(* generate_complete_sudoku has returned, solve_sudoku is called on a new  *)
(* board that holds the diagonal boxes of the grid and 0 elsewhere, which  *)
(* is the board fill_remaining(board, 0, 3) was called with.               *)
(***************************************************************************)
DiagonalBoxes(board) ==
    [r \in Idx |-> [c \in Idx |->
        IF r \div BoxSide = c \div BoxSide THEN board[r][c] ELSE 0]]

\* generate_complete_sudoku returns, and the call solve_sudoku(seeded) up to
\* its first recursive call
SolveSeeded ==
    /\ pc = "fill"
    /\ stack = <<>>
    /\ puzzle' = PuzzleAddr
    /\ StartSolve([heap EXCEPT ![PuzzleAddr] = DiagonalBoxes(heap[complete])],
                  PuzzleAddr)
    /\ pc' = "solve"
    /\ UNCHANGED <<setVars, rndVars, complete, b, carveVars, sol_count>>

FillSolveNext ==
    \/ GenerateComplete
    \/ FillStep
    \/ SolveSeeded
    \/ SolveStep
    \/ TestSolved

FillSolveSpec == Init /\ [][FillSolveNext]_vars

(***************************************************************************)
(* Properties of grids.                                                    *)
(***************************************************************************)
\* a complete valid grid
Complete(board) ==
    /\ \A r \in Idx : {board[r][c] : c \in Idx} = Nums
    /\ \A c \in Idx : {board[r][c] : r \in Idx} = Nums
    /\ \A br \in 0 .. 2, bc \in 0 .. 2 :
           {board[3 * br + i0][3 * bc + j0] : i0 \in 0 .. 2, j0 \in 0 .. 2} = Nums

ZeroCells(board) == {cell \in Cells : board[cell[1]][cell[2]] = 0}
ClueCells(board) == Cells \ ZeroCells(board)

\* question agrees with answer on every cell that question has not zeroed
Carved(question, answer) ==
    \A cell \in Cells : question[cell[1]][cell[2]] \in
                            {0, answer[cell[1]][cell[2]]}

\* the complete valid grids that agree with board on its non-zero cells,
\* enumerated cell by cell over the values the cell's row still lacks
RECURSIVE Completions(_)
Completions(board) ==
    IF ZeroCells(board) = {}
    THEN IF Complete(board) THEN {board} ELSE {}
    ELSE LET cell == CHOOSE z \in ZeroCells(board) : TRUE
             used == {board[cell[1]][c] : c \in Idx}
         IN UNION {Completions([board EXCEPT ![cell[1]][cell[2]] = num]) :
                       num \in Nums \ used}

\* the loop head of remove_cells
AtLoopHead == pc = "carve"

\* count_solutions has returned
CountReturned == pc = "count" /\ stack = <<>>

\* the records of the dict
Records == {result[k].value : k \in 1 .. Len(result)}

(***************************************************************************)
(* The claims.                                                             *)
(***************************************************************************)
\* C1: whenever remove_cells is at the head of its loop, and so when it
\* returns, the board is one count_solutions returned 1 for: the complete
\* grid it was called with, or the last board whose count was 1
C1_UniqueAtLoopHead ==
    AtLoopHead =>
        IF certified = NoBoard
        THEN ZeroCells(heap[puzzle]) = {}
        ELSE heap[puzzle] = certified

\* C1 happens: the loop has ended on a carved board after a removal was
\* put back
C1_Witness ==
    /\ AtLoopHead
    /\ cells_to_remove = 0
    /\ ZeroCells(heap[puzzle]) # {}
    /\ rejected # {}

\* the clue band the claim names for a difficulty
InBand(d, n) ==
    /\ d = "easy" => n \in 45 .. 50
    /\ d = "medium" => n \in 35 .. 40
    /\ d = "hard" => n \in 25 .. 30

\* C2: at the head of the loop the zero cells and the removals still to make
\* add up to 81 less the clue target, the target lies in the band of the
\* difficulty, and the question of every record has a clue count in the band
C2_ClueCount ==
    /\ AtLoopHead =>
          /\ Cardinality(ZeroCells(heap[puzzle])) + cells_to_remove = 81 - clues
          /\ InBand(difficulty, clues)
          /\ cells_to_remove <= 0 =>
                 Cardinality(ClueCells(heap[puzzle])) = clues
    /\ \A rec \in Records : InBand(rec.d, Cardinality(ClueCells(rec.q)))

\* C2 happens: a hard puzzle has been carved down to its target and stored
C2_Witness ==
    /\ difficulty = "hard"
    /\ \E rec \in Records : Cardinality(ClueCells(rec.q)) = clues

\* C3: the board generate_complete_sudoku returns is a complete valid grid,
\* and fill_remaining returned True
C3_GeneratesComplete ==
    pc = "generated" => ok /\ Complete(heap[complete])

\* every run of generate_complete_sudoku returns
C3_Terminates == <>(pc = "generated")

\* C3 happens: generate_complete_sudoku has returned
C3_Witness ==
    /\ pc = "generated"
    /\ ZeroCells(heap[complete]) = {}

\* C4: carving leaves the complete grid as it was generated: at the head of
\* the carving loop it is a complete valid grid and the carved board agrees
\* with it outside its zero cells, and so do the answer and the question of
\* every record
C4_AnswerIntact ==
    /\ AtLoopHead =>
          /\ Complete(heap[complete])
          /\ Carved(heap[puzzle], heap[complete])
    /\ \A rec \in Records : Complete(rec.a) /\ Carved(rec.q, rec.a)

\* C4 happens: the set has been returned with a carved question
C4_Witness ==
    /\ pc = "returned"
    /\ \E rec \in Records : ZeroCells(rec.q) # {} /\ ZeroCells(rec.a) = {}

\* C5: when solve_sudoku has returned from a grid with exactly one
\* completion, it returned True and the board is that completion
C5_SolvesUnique ==
    (pc = "solved" /\ Cardinality(Completions(entry)) = 1) =>
        /\ ok
        /\ Completions(entry) = {heap[puzzle]}

\* C5 happens: solve_sudoku has returned from a grid with holes and one
\* completion
C5_Witness ==
    /\ pc = "solved"
    /\ Cardinality(ZeroCells(entry)) >= 3
    /\ Completions(entry) = {heap[complete]}
    /\ ok

\* C6: the count count_solutions returns is the number of complete valid
\* grids that agree with the board on its non-zero cells, and at least 1
\* when the board is a complete grid with cells zeroed
C6_CountExact ==
    CountReturned =>
        /\ sol_count = Cardinality(Completions(entry))
        /\ Carved(entry, heap[complete]) => sol_count >= 1

\* C6 happens: count_solutions has returned a count above 2
C6_Witness ==
    /\ CountReturned
    /\ sol_count > 2

\* C7: while count_solutions runs and when it returns, the caller's board is
\* the board it was called with; the search works on another object, which
\* is again equal to the caller's board on return
C7_CallerGridIntact ==
    pc = "count" =>
        /\ heap[puzzle] = entry
        /\ b # puzzle
        /\ stack = <<>> => heap[b] = entry

\* C7 happens: count_solutions has returned from a search that placed numbers
C7_Witness ==
    /\ CountReturned
    /\ sol_count = 2
    /\ heap[puzzle] = entry

\* C8 (as claimed): generate_sudoku_set generates and returns only for a
\* positive count and a difficulty of easy, medium or hard
C8_InputValidated ==
    pc \in {"fill", "carve", "count", "returned"} =>
        /\ count >= 1
        /\ difficulty \in Accepted

\* C9 (as claimed): the carving loop is never stuck, that is, at its head
\* with removals still to make while the removal of every clue of the board
\* has been tried, refused by count_solutions and put back
C9_NeverStuck ==
    ~(/\ AtLoopHead
      /\ cells_to_remove > 0
      /\ ClueCells(heap[puzzle]) \subseteq rejected)

\* a removal count_solutions refused once is refused whenever it is tried
\* again: a stuck loop stays stuck
C9_RefusedAgain ==
    (CountReturned /\ <<row, col>> \in rejected) => sol_count # 1

\* C10: the dict generate_sudoku_set(n, d) returns for n >= 1 has n entries,
\* the k-th under the key sdku-v1-q<k>, each with d as its difficulty
C10_KeysAndCount ==
    (pc = "returned" /\ count >= 1) =>
        /\ Len(result) = count
        /\ \A k \in 1 .. Len(result) :
              /\ result[k].key = "sdku-v1-q" \o Decimal(k)
              /\ result[k].value.d = difficulty

\* C10 happens: a set of two puzzles has been returned
C10_Witness ==
    /\ pc = "returned"
    /\ count = 2
    /\ Len(result) = 2

\* num occurs in row `row`, in column `col` or in the box of (row, col)
Occurs(board, r, c, n) ==
    \E cell \in RowCells(r) \cup ColCells(c) \cup BoxCells(r, c) :
        board[cell[1]][cell[2]] = n

\* is_valid is at its return statement
ValidReturned == pc = "is_valid_return"

\* C11: is_valid(board, row, col, num) returns False exactly when num occurs
\* in the row, in the column or in the box of the cell, and the board is the
\* one it was called with
C11_ValidIffAbsent ==
    ValidReturned =>
        LET f == stack[Len(stack)]
        IN /\ ok <=> ~Occurs(heap[puzzle], f.row, f.col, f.num)
           /\ heap[puzzle] = entry

\* C11 happens: is_valid has returned False for a number that occurs in the
\* box of the cell only
C11_Witness ==
    /\ ValidReturned
    /\ ~ok
    /\ LET f == stack[Len(stack)]
       IN \A cell \in RowCells(f.row) \cup ColCells(f.col) :
              heap[puzzle][cell[1]][cell[2]] # f.num

\* solve_sudoku is running or has returned
InSolve == pc \in {"solve", "solved"}

\* C12: while solve_sudoku runs and when it has returned, every cell that
\* was non-zero on entry holds the value it held on entry; called on a grid
\* with no zero cell it has returned True at once and the grid is unchanged
C12_CluesKept ==
    InSolve =>
        /\ \A cell \in ClueCells(entry) :
               heap[puzzle][cell[1]][cell[2]] = entry[cell[1]][cell[2]]
        /\ ZeroCells(entry) = {} =>
               /\ stack = <<>>
               /\ ok
               /\ heap[puzzle] = entry

\* C12 happens: solve_sudoku has written cells of a grid with clues and has
\* backtracked to the very first of its empty cells
C12_Witness ==
    /\ pc = "solve"
    /\ Len(stack) = 1
    /\ stack[1].num > 1
    /\ Cardinality(ZeroCells(entry)) >= 3

\* C13: when solve_sudoku has returned, it returned False exactly when no
\* complete valid grid agrees with the entry grid on its non-zero cells, and
\* after a return of False the grid is the entry grid, cell for cell
C13_FalseIffUnsatisfiable ==
    pc = "solved" =>
        /\ ~ok <=> Completions(entry) = {}
        /\ ~ok => heap[puzzle] = entry

\* C13 happens: solve_sudoku has returned False from a grid whose first
\* empty cell had a value to place
C13_Witness ==
    /\ pc = "solved"
    /\ ~ok
    /\ LET cell == FirstEmpty(entry)
       IN /\ cell[1] < N
          /\ NextValid(entry, cell[1], cell[2], 1) <= N

\* the cells outside the three diagonal boxes, and the place of one of them
\* among them in row-major order
OffDiagonal == {cell \in Cells : cell[1] \div 3 # cell[2] \div 3}
Place(cell) ==
    Cardinality({d \in OffDiagonal :
                    \/ d[1] < cell[1]
                    \/ d[1] = cell[1] /\ d[2] <= cell[2]})

\* C14: the invocation of fill_remaining on top of the stack, the k-th that
\* is running, works on the k-th off-diagonal cell in row-major order, so
\* never on a cell of a diagonal box or outside the grid; and when
\* solve_sudoku has returned from the board fill_remaining was called with,
\* it returned True and its grid is complete and equal to the generated one
C14_FillIsSolve ==
    /\ (pc = "fill" /\ stack # <<>>) =>
           LET f == stack[Len(stack)]
           IN /\ <<f.i, f.j>> \in OffDiagonal
              /\ Place(<<f.i, f.j>>) = Len(stack)
    /\ pc = "solved" =>
           /\ ok
           /\ ZeroCells(heap[puzzle]) = {}
           /\ heap[puzzle] = heap[complete]

\* C14 happens: solve_sudoku has returned from a board with the three
\* diagonal boxes filled and the other 54 cells empty
C14_Witness ==
    /\ pc = "solved"
    /\ ZeroCells(entry) = OffDiagonal
    /\ heap[puzzle] = heap[complete]

====
